---- MODULE Spec2Model ----
(***************************************************************************)
(* A model of the indentation finder of editorconfig-tools                 *)
(* (src/indent_finder.py, class IndentFinder).                             *)
(*                                                                         *)
(* A line of text is a sequence of one-character strings.  The histogram   *)
(* self.lines is a function from its fifteen keys to counts; a key is the  *)
(* pair <<family, width>>, standing for the strings 'space%d', 'mixed%d'   *)
(* and 'tab' (width 0) of the source.                                      *)
(***************************************************************************)
EXTENDS Integers, Sequences, FiniteSets, TLC

VARIABLES
    lines,                \* self.lines: the histogram
    nb_processed_lines,   \* self.nb_processed_lines
    nb_indent_hint,       \* self.nb_indent_hint
    skip_next_line,       \* self.skip_next_line
    previous_line_info,   \* self.previous_line_info
    default_result,       \* self.default_result
    f,                    \* parse_file: lines read from the open file, -1 when none is open
    op,                   \* the operation that ran last
    ret,                  \* what that operation returned
    input,                \* the lines given to analyse_line since construction or clear(),
                          \* or the lines that check() has read from its file
    errors,               \* EditorConfigChecker: self.errors
    properties,           \* check: the properties it was called with
    lineno,               \* check: lineno
    correctly_indented,   \* check: correctly_indented
    cf,                   \* check: lines read from the open file, -1 when none is open
    auto_fix,             \* EditorConfigChecker: self.auto_fix
    file,                 \* check: the lines of the file on disk, each with its terminator
    check_lines,          \* check: lines, the list that is written back
    newline,              \* check: newline
    cur_line              \* check: line, as the last pass of the loop left it

vars == <<lines, nb_processed_lines, nb_indent_hint, skip_next_line,
          previous_line_info, default_result, f, op, ret, input,
          errors, properties, lineno, correctly_indented, cf,
          auto_fix, file, check_lines, newline, cur_line>>

checker_vars == <<errors, properties, lineno, correctly_indented, cf,
                  auto_fix, file, check_lines, newline, cur_line>>

self_vars == <<lines, nb_processed_lines, nb_indent_hint, skip_next_line,
               previous_line_info, default_result>>

(***************************************************************************)
(* Program constants.                                                      *)
(***************************************************************************)
DEFAULT_TAB_WIDTH == 4

DEFAULT_RESULT == <<"space", 4>>

\* Python's None, as a return value and as previous_line_info.
None == <<>>

NoIndent == "NoIndent"

SpaceOnly == "SpaceOnly"

TabOnly == "TabOnly"

Mixed == "Mixed"

BeginSpace == "BeginSpace"

(***************************************************************************)
(* Bounds of the model.                                                    *)
(***************************************************************************)
\* analyse_line calls between two clear() in the general specification
MaxLines == 3

\* the largest count of a bucket in the histograms results() is tried on
MaxCount == 11

\* the largest count where the three families are compared
MaxOther == 2

\* the tabs of the deepest line of a tab-indented file
MaxTabs == 4

\* the lines of a space-indented file
MaxSpaceLines == 5

(***************************************************************************)
(* Text helpers.                                                           *)
(***************************************************************************)
SP == " "

TAB == "\t"

NL == "\n"

CR == "\r"

BACKSLASH == "\\"

IsBlank(c) == c = SP \/ c = TAB

\* s[a:b] of Python for 0 <= a, as a sequence (clipped at the end of s)
Slice(s, a, b) == SubSeq(s, a + 1, IF b < Len(s) THEN b ELSE Len(s))

\* s[-1:] of Python
LastChars(s) == IF Len(s) = 0 THEN <<>> ELSE <<s[Len(s)]>>

\* the number of leading characters of s that satisfy [ \t] / [^ \t]
RECURSIVE BlankRun(_, _)
BlankRun(s, i) ==
    IF i <= Len(s) /\ IsBlank(s[i]) THEN 1 + BlankRun(s, i + 1) ELSE 0

RECURSIVE TextRun(_, _)
TextRun(s, i) ==
    IF i <= Len(s) /\ ~IsBlank(s[i]) THEN 1 + TextRun(s, i + 1) ELSE 0

RECURSIVE CharRun(_, _, _)
CharRun(s, i, c) ==
    IF i <= Len(s) /\ s[i] = c THEN 1 + CharRun(s, i + 1, c) ELSE 0

Contains(s, c) == \E i \in 1..Len(s) : s[i] = c

\* indent_re = "^([ \t]+)([^ \t]+)" matched at the start of the line:
\* <<group 1, group 2>>, or None when there is no match
indent_re_match(line) ==
    LET n == BlankRun(line, 1)
        m == TextRun(line, n + 1)
    IN  IF n >= 1 /\ m >= 1
        THEN <<SubSeq(line, 1, n), SubSeq(line, n + 1, n + m)>>
        ELSE None

\* mixed_re = "^(\t+)( +)$" matched against the indentation
mixed_re_match(indent_part) ==
    LET t == CharRun(indent_part, 1, TAB)
        s == CharRun(indent_part, t + 1, SP)
    IN  IF t >= 1 /\ s >= 1 /\ t + s = Len(indent_part)
        THEN <<SubSeq(indent_part, 1, t), SubSeq(indent_part, t + 1, t + s)>>
        ELSE None

(***************************************************************************)
(* IndentFinder.analyse_line_type: the type of a line with its indentation *)
(* part(s), or None for a line that carries no signal.                     *)
(***************************************************************************)
\* TypeOfIndent that takes a run of 8 spaces for the start of a mixed line
TypeOfIndent_UpTo8(indent_part, mixed_mode, mo) ==
    IF mixed_mode
    THEN IF Len(mo[2]) >= 8 THEN None ELSE <<Mixed, mo[1], mo[2]>>
    ELSE IF Contains(indent_part, TAB) THEN <<TabOnly, indent_part>>
    ELSE IF Len(indent_part) <= 8
         THEN <<BeginSpace, indent_part>>
         ELSE <<SpaceOnly, indent_part>>

\* the end of the function, from "if mixed_mode:" on; mo is the match of
\* mixed_re, looked for only when the indentation holds tabs and spaces
TypeOfIndent(indent_part, mixed_mode, mo) ==
    IF mixed_mode
    THEN IF Len(mo[2]) >= 8 THEN None ELSE <<Mixed, mo[1], mo[2]>>
    ELSE IF Contains(indent_part, TAB) THEN <<TabOnly, indent_part>>
    ELSE IF Contains(indent_part, SP)
    THEN IF Len(indent_part) < 8
         THEN <<BeginSpace, indent_part>>
         ELSE <<SpaceOnly, indent_part>>
    ELSE <<"AssertionError">>  \* assert False, 'We should never get there !'

\* "if '\t' in indent_part and ' ' in indent_part:" with the match of mixed_re
TypeOfMixture(indent_part, both, mo) ==
    IF both /\ mo = None THEN None ELSE TypeOfIndent(indent_part, both, mo)

\* TypeOfParts that takes '/' alone for the start of a comment
TypeOfParts_Slash(indent_part, text_part) ==
    IF text_part[1] \in {"*", "/", "#"} THEN None
    ELSE TypeOfMixture(indent_part,
                       Contains(indent_part, TAB) /\ Contains(indent_part, SP),
                       mixed_re_match(indent_part))

\* the function from the comment tests on
TypeOfParts(indent_part, text_part) ==
    IF text_part[1] = "*" THEN None
    ELSE IF Slice(text_part, 0, 2) = <<"/", "*">> \/ text_part[1] = "#" THEN None
    ELSE TypeOfMixture(indent_part,
                       Contains(indent_part, TAB) /\ Contains(indent_part, SP),
                       mixed_re_match(indent_part))

\* the function from "if not mo:" on, mo being the match of indent_re
TypeOfMatch(mo) == IF mo = None THEN None ELSE TypeOfParts(mo[1], mo[2])

\* analyse_line_type that knows an unindented line only while no line is stored
analyse_line_type_Sticky(line) ==
    IF Len(line) > 0 /\ line[1] # SP /\ line[1] # TAB /\ previous_line_info = None
    THEN <<NoIndent, <<>>>>
    ELSE TypeOfMatch(indent_re_match(line))

analyse_line_type(line) ==
    IF Len(line) > 0 /\ line[1] # SP /\ line[1] # TAB
    THEN <<NoIndent, <<>>>>
    ELSE TypeOfMatch(indent_re_match(line))

(***************************************************************************)
(* The histogram.                                                          *)
(***************************************************************************)
Widths == 2..8

Key(family, n) == <<family, n>>

\* the key 'tab'
TabKey == <<"tab", 0>>

Keys == {Key("space", i) : i \in Widths} \cup {Key("mixed", i) : i \in Widths}
            \cup {TabKey}

\* self.lines as clear() leaves it
EmptyLines == [k \in Keys |-> 0]

\* self.lines[key] += 1
Incr(h, key) == [h EXCEPT ![key] = @ + 1]

(***************************************************************************)
(* IndentFinder.analyse_line_indentation, as a function of the histogram,  *)
(* the stored previous line and the line: the new histogram, the new       *)
(* stored line and the returned key (None for no hint).                    *)
(***************************************************************************)
\* what is stored as self.previous_line_info once the line is classified
StoredLineInfo(previous, current) == current

\* the two-sided test with 9 for 8
InRange_Nine(nb_space) == 1 < nb_space /\ nb_space <= 9

\* the two-sided test "1 < nb_space <= 8"
InRange(nb_space) == 1 < nb_space /\ nb_space <= 8

\* an exception that leaves the function in place of a returned value
AssertionError == <<"AssertionError">>

KeyError == <<"KeyError">>

Raised(r) == r = AssertionError \/ r = KeyError

\* "self.lines[key] += 1; return key", which raises for a key that the
\* histogram does not hold
Hint(h, key) ==
    IF key \in DOMAIN h THEN [lines |-> Incr(h, key), ret |-> key]
    ELSE [lines |-> h, ret |-> KeyError]

NoHint(h) == [lines |-> h, ret |-> None]

\* "t == (TabOnly, TabOnly) or t == (NoIndent, TabOnly)" without its second
\* half
IsTabPair_FromTabOnly(t) == t = <<TabOnly, TabOnly>>

\* the pairs of line types of the first branch
IsTabPair(t) == t = <<TabOnly, TabOnly>> \/ t = <<NoIndent, TabOnly>>

\* the pairs of the second branch without (NoIndent, SpaceOnly)
IsSpacePair_FromIndented(t) ==
    t = <<SpaceOnly, SpaceOnly>> \/ t = <<BeginSpace, SpaceOnly>>

\* the pairs of the second branch
IsSpacePair(t) ==
    t = <<SpaceOnly, SpaceOnly>> \/ t = <<BeginSpace, SpaceOnly>>
        \/ t = <<NoIndent, SpaceOnly>>

\* the pairs of the third branch
IsBeginSpacePair(t) == t = <<BeginSpace, BeginSpace>> \/ t = <<NoIndent, BeginSpace>>

\* first branch with any number of tabs more
TabHint_AnyDepth(h, previous, current) ==
    IF Len(current[2]) - Len(previous[2]) >= 1 THEN Hint(h, TabKey) ELSE NoHint(h)

\* second branch with fewer spaces counted like more spaces
SpaceHint_EitherWay(h, nb_space) ==
    IF InRange(nb_space) THEN Hint(h, Key("space", nb_space))
    ELSE IF InRange(0 - nb_space) THEN Hint(h, Key("space", 0 - nb_space))
    ELSE NoHint(h)

\* third branch as a hint for 'space%d' alone
BothHint_SpaceAlone(h, nb_space) ==
    IF InRange(nb_space) THEN Hint(h, Key("space", nb_space)) ELSE NoHint(h)

\* first branch: one more tab is a hint for 'tab'
TabHint(h, previous, current) ==
    IF Len(current[2]) - Len(previous[2]) = 1 THEN Hint(h, TabKey) ELSE NoHint(h)

\* second branch: more spaces are a hint for 'space%d'
SpaceHint(h, nb_space) ==
    IF InRange(nb_space) THEN Hint(h, Key("space", nb_space)) ELSE NoHint(h)

\* third branch: a hint for 'space%d' and for 'mixed%d'
BothHint(h, nb_space) ==
    IF InRange(nb_space)
    THEN IF Key("space", nb_space) \in DOMAIN h
         THEN [lines |-> Hint(Incr(h, Key("space", nb_space)),
                              Key("mixed", nb_space)).lines,
               ret |-> IF Key("mixed", nb_space) \in DOMAIN h
                       THEN Key("space", nb_space) ELSE KeyError]
         ELSE [lines |-> h, ret |-> KeyError]
    ELSE NoHint(h)

\* MixedHint that takes a step of 2 columns for no hint
MixedHint_Wide(h, nb_space) ==
    IF 2 < nb_space /\ nb_space <= 8
    THEN Hint(h, Key("mixed", nb_space)) ELSE NoHint(h)

\* fourth to sixth branch: a hint for 'mixed%d'
MixedHint(h, nb_space) ==
    IF InRange(nb_space) THEN Hint(h, Key("mixed", nb_space)) ELSE NoHint(h)

\* the dispatch on the pair of line types, both lines being significant
IndentHint(h, previous, current) ==
    IF IsTabPair(<<previous[1], current[1]>>)
    THEN TabHint(h, previous, current)
    ELSE IF IsSpacePair(<<previous[1], current[1]>>)
    THEN SpaceHint(h, Len(current[2]) - Len(previous[2]))
    ELSE IF IsBeginSpacePair(<<previous[1], current[1]>>)
    THEN BothHint(h, Len(current[2]) - Len(previous[2]))
    ELSE IF <<previous[1], current[1]>> = <<BeginSpace, TabOnly>>
    THEN IF Len(current[2]) = 1
         THEN MixedHint(h, Len(current[2]) * 8 - Len(previous[2]))
         ELSE NoHint(h)
    ELSE IF <<previous[1], current[1]>> = <<TabOnly, Mixed>>
    THEN IF Len(previous[2]) = Len(current[2])
         THEN MixedHint(h, Len(current[3]))
         ELSE NoHint(h)
    ELSE IF <<previous[1], current[1]>> = <<Mixed, TabOnly>>
    THEN IF Len(previous[2]) + 1 = Len(current[2])
         THEN MixedHint(h, 8 - Len(previous[3]))
         ELSE NoHint(h)
    ELSE NoHint(h)

\* the result of the function, given the hint and the line stored
WithStored(r, stored) ==
    [lines |-> r.lines, previous_line_info |-> stored, ret |-> r.ret]

\* the function once the line is classified as current_line_info
PairLines(h, previous, current_line_info) ==
    IF current_line_info = AssertionError
    THEN [lines |-> h, previous_line_info |-> previous, ret |-> AssertionError]
    ELSE WithStored(IF current_line_info = None \/ previous = None
                    THEN NoHint(h)
                    ELSE IndentHint(h, previous, current_line_info),
                    StoredLineInfo(previous, current_line_info))

analyse_line_indentation(h, previous, line) ==
    PairLines(h, previous, analyse_line_type(line))

(***************************************************************************)
(* IndentFinder.analyse_line, as a function of the object's fields and the *)
(* line: the new fields and the returned value.                            *)
(***************************************************************************)
\* the line without its trailing '\n'
StripNewline(line) ==
    IF LastChars(line) = <<NL>> THEN SubSeq(line, 1, Len(line) - 1) ELSE line

\* whether the line, its '\n' removed, makes analyse_line skip the next one
EndsInBackslash(line) == LastChars(StripNewline(line)) = <<BACKSLASH>>

\* SkippedLine that also forgets the stored line
SkippedLine_Reset(me, line) ==
    [me EXCEPT !.nb_processed_lines = @ + 1,
               !.skip_next_line = EndsInBackslash(line),
               !.previous_line_info = None,
               !.ret = None]

\* SkippedLine that does not look at the end of the skipped line
SkippedLine_FlagOff(me, line) ==
    [me EXCEPT !.nb_processed_lines = @ + 1,
               !.skip_next_line = FALSE,
               !.ret = None]

\* the fields a skipped line leaves behind: the early return
SkippedLine(me, line) ==
    [me EXCEPT !.nb_processed_lines = @ + 1,
               !.skip_next_line = EndsInBackslash(line),
               !.ret = None]

\* the fields after "ret = self.analyse_line_indentation( line )" gave a
CountedLine(me, line, a) ==
    [lines |-> a.lines,
     nb_processed_lines |-> me.nb_processed_lines + 1,
     nb_indent_hint |-> IF a.ret # None /\ ~Raised(a.ret)
                        THEN me.nb_indent_hint + 1
                        ELSE me.nb_indent_hint,
     skip_next_line |-> EndsInBackslash(line),
     previous_line_info |-> a.previous_line_info,
     ret |-> a.ret]

AnalysedLine(me, line) ==
    CountedLine(me, line,
                analyse_line_indentation(me.lines, me.previous_line_info,
                                         StripNewline(line)))

\* analyse_line without the early return of a skipped line
analyse_line_NoSkip(me, line) == AnalysedLine(me, line)

analyse_line(me, line) ==
    IF me.skip_next_line THEN SkippedLine(me, line) ELSE AnalysedLine(me, line)

(***************************************************************************)
(* IndentFinder.results: the verdict for a histogram.                      *)
(***************************************************************************)
Max2(a, b) == IF a > b THEN a ELSE b

RECURSIVE MaxOver(_, _, _)
\* max( [ h[family, i] for i in range(lo, 9) ] )
MaxOver(h, family, lo) ==
    IF lo = 8 THEN h[Key(family, 8)]
    ELSE Max2(h[Key(family, lo)], MaxOver(h, family, lo + 1))

max_line_space(h) == MaxOver(h, "space", 2)

max_line_mixed(h) == MaxOver(h, "mixed", 2)

max_line_tab(h) == h[TabKey]

\* int( nb * 1.2 ): a 20% threshold
IntTimes1_2(nb) == (12 * nb) \div 10

\* int( nb * 1.1 ): the double product truncated; for 0 <= nb < 2 000 000 it
\* is the integer part of 11 nb / 10
IntTimes1_1(nb) == (11 * nb) \div 10

\* the test of the scan with >= for >
BeatsThreshold_AtLeast(count, nb) == count >= IntTimes1_1(nb)

\* the test of the scan: a count beats the 10% threshold over nb
BeatsThreshold(count, nb) == count > IntTimes1_1(nb)

RECURSIVE Scan(_, _, _, _, _)
\* the loop "for i in range(8,1,-1)" from width i on, with the loop's
\* variables nb and indent_value; the indent_value after the loop, as <<i>>,
\* or None
Scan(h, family, i, nb, indent_value) ==
    IF i < 2 THEN indent_value
    ELSE IF BeatsThreshold(h[Key(family, i)], nb)
         THEN Scan(h, family, i - 1, h[Key(family, i)], <<i>>)
         ELSE Scan(h, family, i - 1, nb, indent_value)

\* the scan started with nb = 1
ScanResult_FromOne(h, family) == Scan(h, family, 8, 1, None)

ScanResult(h, family) == Scan(h, family, 8, 0, None)

\* ResultsBranch with the space family having to beat the mixed one
ResultsBranch_Strict(h) ==
    IF max_line_space(h) > max_line_mixed(h) /\ max_line_space(h) > max_line_tab(h)
    THEN "space"
    ELSE IF max_line_tab(h) > max_line_mixed(h) /\ max_line_tab(h) > max_line_space(h)
    THEN "tab"
    ELSE IF max_line_mixed(h) >= max_line_tab(h) /\ max_line_mixed(h) > max_line_space(h)
    THEN "mixed"
    ELSE "default"

\* the branch of the if / elif chain that results() takes
ResultsBranch(h) ==
    IF max_line_space(h) >= max_line_mixed(h) /\ max_line_space(h) > max_line_tab(h)
    THEN "space"
    ELSE IF max_line_tab(h) > max_line_mixed(h) /\ max_line_tab(h) > max_line_space(h)
    THEN "tab"
    ELSE IF max_line_mixed(h) >= max_line_tab(h) /\ max_line_mixed(h) > max_line_space(h)
    THEN "mixed"
    ELSE "default"

\* the result of the space branch, indent_value being what its scan found
SpaceResult(indent_value, default) ==
    IF indent_value = None THEN default ELSE <<"space", indent_value[1]>>

\* the result of the mixed branch
MixedResult(indent_value, default) ==
    IF indent_value = None THEN default ELSE <<"mixed", <<8, indent_value[1]>>>>

\* BranchResult with the module's DEFAULT_RESULT where no branch decides
BranchResult_ModuleDefault(h, default, branch) ==
    IF branch = "space" THEN SpaceResult(ScanResult(h, "space"), default)
    ELSE IF branch = "tab" THEN <<"tab", DEFAULT_TAB_WIDTH>>
    ELSE IF branch = "mixed" THEN MixedResult(ScanResult(h, "mixed"), default)
    ELSE DEFAULT_RESULT

\* the result of the branch taken
BranchResult(h, default, branch) ==
    IF branch = "space" THEN SpaceResult(ScanResult(h, "space"), default)
    ELSE IF branch = "tab" THEN <<"tab", DEFAULT_TAB_WIDTH>>
    ELSE IF branch = "mixed" THEN MixedResult(ScanResult(h, "mixed"), default)
    ELSE default

results(h, default) == BranchResult(h, default, ResultsBranch(h))

(***************************************************************************)
(* The state machine: one IndentFinder and its caller.                     *)
(***************************************************************************)
\* the default_result a caller constructs the finder with: the module's
\* DEFAULT_RESULT, or ('tab', 8), which no verdict of results() equals
Defaults == {DEFAULT_RESULT, <<"tab", 8>>}

\* the lines the caller feeds in the general specification
Bodies ==
    { <<>>,
      <<"x">>,
      <<"x", BACKSLASH>>,
      <<SP, SP>>,
      <<SP, SP, "#">>,
      <<SP, TAB, "x">>,
      <<SP, SP, SP, SP, "x">>,
      <<SP, SP, SP, SP, SP, SP, SP, SP, "x">>,
      <<TAB, "x">>,
      <<TAB, "x", BACKSLASH>>,
      <<TAB, TAB, "x">>,
      <<TAB, SP, SP, "x">> }

Lines == {b \o <<NL>> : b \in Bodies} \cup {<<>>, <<"x">>, <<TAB, TAB, "x">>}

\* what readline() can return before the end of the file
EndsWithNewline(l) == LastChars(l) = <<NL>>

\* the fields of the finder, with the last returned value
Me ==
    [lines |-> lines,
     nb_processed_lines |-> nb_processed_lines,
     nb_indent_hint |-> nb_indent_hint,
     skip_next_line |-> skip_next_line,
     previous_line_info |-> previous_line_info,
     ret |-> ret]

\* no EditorConfigChecker is at work: its set of errors is empty and check()
\* is not running
\* EditorConfigChecker(): fix defaults to False, and no check() has run
NoChecker ==
    /\ errors = {}
    /\ properties = <<>>
    /\ lineno = 0
    /\ correctly_indented = 0
    /\ cf = -1
    /\ file = <<>>
    /\ check_lines = <<>>
    /\ newline = None
    /\ cur_line = None
    /\ auto_fix = FALSE

\* IndentFinder(default_result): __init__ calls clear()
Init ==
    /\ lines = EmptyLines
    /\ nb_processed_lines = 0
    /\ nb_indent_hint = 0
    /\ skip_next_line = FALSE
    /\ previous_line_info = None
    /\ default_result \in Defaults
    /\ f = -1
    /\ op = "init"
    /\ ret = None
    /\ input = <<>>
    /\ NoChecker

\* the effect of self.analyse_line( l ) on the finder
DoAnalyseLine(l) ==
    \E me \in {analyse_line(Me, l)} :
    /\ lines' = me.lines
    /\ nb_processed_lines' = me.nb_processed_lines
    /\ nb_indent_hint' = me.nb_indent_hint
    /\ skip_next_line' = me.skip_next_line
    /\ previous_line_info' = me.previous_line_info
    /\ ret' = me.ret
    /\ op' = "analyse_line"
    /\ input' = Append(input, l)
    /\ UNCHANGED <<default_result, checker_vars>>

\* a caller's own call of analyse_line
AnalyseLine(L) ==
    \E l \in L :
        /\ f = -1
        /\ DoAnalyseLine(l)
        /\ UNCHANGED f

\* parse_file: f = open( fname )
OpenFile ==
    /\ f = -1
    /\ f' = 0
    /\ op' = "open"
    /\ ret' = None
    /\ UNCHANGED <<self_vars, input, checker_vars>>

\* parse_file: one turn of the loop on a line that ends in '\n'
ReadLine(L) ==
    \E l \in L :
        /\ f >= 0
        /\ EndsWithNewline(l)
        /\ DoAnalyseLine(l)
        /\ f' = f + 1

\* parse_file: the last line of a file that does not end in '\n', after which
\* readline() returns '' and the file is closed
ReadLastLine(L) ==
    \E l \in L :
        /\ f >= 0
        /\ l # <<>>
        /\ ~EndsWithNewline(l)
        /\ DoAnalyseLine(l)
        /\ f' = -1

\* parse_file: readline() returns '' and the file is closed
CloseFile ==
    /\ f >= 0
    /\ f' = -1
    /\ op' = "close"
    /\ ret' = None
    /\ UNCHANGED <<self_vars, input, checker_vars>>

\* results() that empties the histogram it has read
Results_Clearing ==
    /\ f = -1
    /\ ret' = results(lines, default_result)
    /\ op' = "results"
    /\ lines' = EmptyLines
    /\ UNCHANGED <<nb_processed_lines, nb_indent_hint, skip_next_line,
                   previous_line_info, default_result, f, input, checker_vars>>

\* self.results()
Results ==
    /\ f = -1
    /\ ret' = results(lines, default_result)
    /\ op' = "results"
    /\ UNCHANGED <<self_vars, f, input, checker_vars>>

\* clear() that leaves the stored line and the skip flag as they are
Clear_KeepsLine ==
    /\ f = -1
    /\ op # "clear" /\ op # "init"
    /\ lines' = EmptyLines
    /\ nb_processed_lines' = 0
    /\ nb_indent_hint' = 0
    /\ op' = "clear"
    /\ ret' = None
    /\ input' = <<>>
    /\ UNCHANGED <<skip_next_line, previous_line_info, default_result, f,
                   checker_vars>>

\* self.clear()
Clear ==
    /\ f = -1
    /\ op # "clear" /\ op # "init"
    /\ lines' = EmptyLines
    /\ nb_processed_lines' = 0
    /\ nb_indent_hint' = 0
    /\ skip_next_line' = FALSE
    /\ previous_line_info' = None
    /\ op' = "clear"
    /\ ret' = None
    /\ input' = <<>>
    /\ UNCHANGED <<default_result, f, checker_vars>>

\* the lines the caller may give next: MaxLines between two clear()
Feed == IF Len(input) < MaxLines THEN Lines ELSE {}

Next ==
    \/ AnalyseLine(Feed)
    \/ Feed # {} /\ OpenFile
    \/ ReadLine(Feed)
    \/ ReadLastLine(Feed)
    \/ CloseFile
    \/ Results
    \/ Clear

Spec == Init /\ [][Next]_vars

(***************************************************************************)
(* Properties of the analyser, checked under Spec.                         *)
(***************************************************************************)
AllZero == \A k \in Keys : lines[k] = 0

\* the line the last analyse_line call was given
LastLine == input[Len(input)]

\* an analyse_line call happens in this step
AnalyseStep == op' = "analyse_line" /\ input' # input

IsComment(l) == analyse_line_type(l) = None /\ BlankRun(l, 1) >= 1
                    /\ TextRun(l, BlankRun(l, 1) + 1) >= 1

\* C1: whenever results() is called on a finder whose fifteen buckets are
\* all zero (no line, only unindented lines, only rejected comment lines,
\* ...), it returns exactly the default_result the caller supplied.
C1_NoEvidenceGivesDefault ==
    (op = "results" /\ AllZero) => ret = default_result

\* a finder that was given an unindented line and an indented comment, holds
\* no evidence and answered results() with a default other than the module's
C1_Witness ==
    /\ op = "results"
    /\ AllZero
    /\ Len(input) = 2
    /\ analyse_line_type(StripNewline(input[1])) = <<NoIndent, <<>>>>
    /\ IsComment(StripNewline(input[2]))
    /\ default_result # DEFAULT_RESULT
    /\ ret = default_result

\* C2: a line that classifies as Rejected leaves the stored previous line
\* unchanged.
C2_RejectedKeepsPrevious ==
    [][(AnalyseStep /\ ~skip_next_line
          /\ analyse_line_type(StripNewline(input'[Len(input')])) = None)
       => previous_line_info' = previous_line_info]_vars

\* C3: the line that follows a line ending in a backslash never changes the
\* histogram.
C3_LineAfterBackslashIsNoEvidence ==
    [][(AnalyseStep /\ Len(input) >= 1 /\ EndsInBackslash(LastLine))
       => lines' = lines]_vars

\* a 4-space line was skipped after an unindented line ending in a
\* backslash, although the stored line would have paired with it
C3_Witness ==
    /\ op = "analyse_line"
    /\ Len(input) = 2
    /\ input[1] = <<"x", BACKSLASH, NL>>
    /\ input[2] = <<SP, SP, SP, SP, "x", NL>>
    /\ previous_line_info = <<NoIndent, <<>>>>
    /\ AllZero

\* C4, as stated: a line skipped after a backslash resets the stored
\* previous line to none.
C4_SkipResetsPrevious ==
    [][(AnalyseStep /\ skip_next_line) => previous_line_info' = None]_vars

\* C4, amended: a line skipped after a backslash leaves the stored previous
\* line unchanged, so the first significant line after it is paired with
\* the line stored before the skip: after a one-tab line ending in a
\* backslash and a skipped two-tab line, a further two-tab line increments
\* the tab bucket.
C4_SkipKeepsPrevious ==
    /\ [][(AnalyseStep /\ skip_next_line)
          => previous_line_info' = previous_line_info]_vars
    /\ []((op = "analyse_line"
            /\ input = << <<TAB, "x", BACKSLASH, NL>>, <<TAB, TAB, "x", NL>>,
                          <<TAB, TAB, "x", NL>> >>)
          => (lines[TabKey] = 1 /\ ret = TabKey))

C4_Witness ==
    /\ op = "analyse_line"
    /\ input = << <<TAB, "x", BACKSLASH, NL>>, <<TAB, TAB, "x", NL>>,
                  <<TAB, TAB, "x", NL>> >>
    /\ lines[TabKey] = 1

\* C5: every file scan starts with no stored previous line and with the
\* skip flag clear, also the scan that follows the scan of another file.
C5_FileScanStartsFresh ==
    [][(op = "close" /\ f' = 0)
       => (previous_line_info' = None /\ skip_next_line' = FALSE)]_vars

\* C8: results() changes no field of the finder, and two results() calls
\* in a row return the same verdict.
C8_ResultsIsReadOnly ==
    [][op' = "results"
       => (UNCHANGED self_vars /\ (op = "results" => ret' = ret))]_vars

\* results() answered on a finder that holds evidence
C8_Witness ==
    /\ op = "results"
    /\ Len(input) = 2
    /\ lines[TabKey] = 1
    /\ previous_line_info # None
    /\ ret = <<"tab", DEFAULT_TAB_WIDTH>>

(***************************************************************************)
(* results() on a range of histograms.  results() reads the histogram and  *)
(* default_result only, so the finder starts here with a histogram that    *)
(* earlier input has left (input records the lines given from then on).    *)
(* Every such histogram is one the analyser can produce: each bucket but   *)
(* mixed8 has a pair of lines that increments it alone (space d: 8 spaces  *)
(* then 8 + d spaces; mixed d: one tab then one tab and d spaces; tab: no  *)
(* indent then one tab), and a blank line after the pair leaves no stored  *)
(* line behind, so each hint costs three lines.                            *)
(***************************************************************************)
\* the widths whose bucket the analyser can increment
FamilyWidths(family) == IF family = "mixed" THEN 2..7 ELSE Widths

\* the histogram with count a at width w1, b at w2 and c at w3 of a family
Hist3(family, w1, a, w2, b, w3, c) ==
    [k \in Keys |-> IF k = Key(family, w1) THEN a
                    ELSE IF k = Key(family, w2) THEN b
                    ELSE IF k = Key(family, w3) THEN c
                    ELSE 0]

\* the histogram with count a at one width of the space family, m at one of
\* the mixed family and t for tab
Hist111(sw, a, mw, m, t) ==
    [k \in Keys |-> IF k = Key("space", sw) THEN a
                    ELSE IF k = Key("mixed", mw) THEN m
                    ELSE IF k = TabKey THEN t
                    ELSE 0]

RECURSIVE SumOver(_, _)
SumOver(h, S) ==
    IF S = {} THEN 0
    ELSE LET k == CHOOSE x \in S : TRUE IN h[k] + SumOver(h, S \ {k})

\* histograms of one family, for the scan of the widths
InitScanHist ==
    \E family \in {"space", "mixed"} :
    \E w2 \in FamilyWidths(family) :
    \E w1 \in {w \in FamilyWidths(family) : w > w2} :
    \E w3 \in {w \in FamilyWidths(family) : w < w2} :
    \E a \in 0..MaxCount, b \in 0..MaxCount, c \in 0..MaxCount :
        lines = Hist3(family, w1, a, w2, b, w3, c)

\* histograms with one bucket of each family, for the choice of the branch
InitBranchHist ==
    \E sw \in Widths, mw \in FamilyWidths("mixed") :
    \E a \in 0..MaxOther, m \in 0..MaxOther, t \in 0..MaxOther :
        lines = Hist111(sw, a, mw, m, t)

InitResults ==
    /\ InitScanHist \/ InitBranchHist
    /\ nb_indent_hint = SumOver(lines, Keys)
    /\ nb_processed_lines = 3 * nb_indent_hint
    /\ skip_next_line = FALSE
    /\ previous_line_info = None
    /\ default_result \in Defaults
    /\ f = -1
    /\ op = "init"
    /\ ret = None
    /\ input = <<>>
    /\ NoChecker

NextResults == Results

SpecResults == InitResults /\ [][NextResults]_vars

\* the largest element of a non-empty finite set of numbers
MaxOf(S) == CHOOSE m \in S : \A x \in S : x <= m

\* the branch that C6 gives for a histogram
C6_Branch(h) ==
    LET max_space == MaxOf({h[Key("space", i)] : i \in 2..8})
        max_mixed == MaxOf({h[Key("mixed", i)] : i \in 2..8})
        tab == h[TabKey]
    IN  IF max_space >= max_mixed /\ max_space > tab THEN "space"
        ELSE IF tab > max_mixed /\ tab > max_space THEN "tab"
        ELSE IF max_mixed >= tab /\ max_mixed > max_space THEN "mixed"
        ELSE "default"

\* the branch a verdict shows, for a default_result that no branch computes
ShownBranch(v) ==
    IF v[1] = "space" THEN "space"
    ELSE IF v = <<"tab", DEFAULT_TAB_WIDTH>> THEN "tab"
    ELSE IF v[1] = "mixed" THEN "mixed"
    ELSE "default"

\* C6: results() takes the space scan iff max_space >= max_mixed and
\* max_space > tab, else answers Tab iff tab > max_mixed and tab > max_space,
\* else takes the mixed scan iff max_mixed >= tab and max_mixed > max_space,
\* else answers default_result.
C6_BranchRule ==
    op = "results" =>
        /\ default_result # DEFAULT_RESULT => ShownBranch(ret) = C6_Branch(lines)
        /\ C6_Branch(lines) = "default" => ret = default_result
        /\ C6_Branch(lines) = "tab" => ret = <<"tab", DEFAULT_TAB_WIDTH>>

\* space and mixed level, both above tab: the space scan answers
C6_Witness ==
    /\ op = "results"
    /\ default_result # DEFAULT_RESULT
    /\ max_line_space(lines) = max_line_mixed(lines)
    /\ max_line_space(lines) > max_line_tab(lines)
    /\ max_line_tab(lines) > 0
    /\ ret[1] = "space"

RECURSIVE C7_Scan(_, _, _, _)
\* the width C7 gives: from width i down to 2, a width replaces the chosen
\* one (0 for none, with count 0) only when its count exceeds 1.1 times the
\* chosen width's count
C7_Scan(h, family, i, chosen) ==
    IF i < 2 THEN chosen
    ELSE IF 10 * h[Key(family, i)]
              > 11 * (IF chosen = 0 THEN 0 ELSE h[Key(family, chosen)])
         THEN C7_Scan(h, family, i - 1, i)
         ELSE C7_Scan(h, family, i - 1, chosen)

\* the histogram of the example: space4 = 10, space2 = 11, nothing else
C7_Example == Hist3("space", 4, 10, 2, 11, 3, 0)

\* C7: the scan from 8 down to 2 replaces the chosen width by a smaller one
\* only when the smaller width's count strictly exceeds 1.1 times the chosen
\* width's count; space4 = 10 with space2 = 11 resolves to Space(4).
C7_ScanThreshold ==
    (op = "results" /\ default_result # DEFAULT_RESULT) =>
        /\ ret[1] = "space" => ret[2] = C7_Scan(lines, "space", 8, 0)
        /\ ret[1] = "mixed" => ret[2] = <<8, C7_Scan(lines, "mixed", 8, 0)>>
        /\ lines = C7_Example => ret = <<"space", 4>>

C7_Witness ==
    /\ op = "results"
    /\ default_result # DEFAULT_RESULT
    /\ lines = C7_Example
    /\ ret = <<"space", 4>>

(***************************************************************************)
(* One file given to a new finder by parse_file, then results(): files     *)
(* indented by tabs alone (SpecTab) and by spaces alone (SpecSpace).       *)
(***************************************************************************)
Tabs(n) == [i \in 1..n |-> TAB]

Spaces(n) == [i \in 1..n |-> SP]

\* what follows the indentation: code, a comment, code ending in a backslash
Texts == {<<"x">>, <<"#">>, <<"x", BACKSLASH>>}

\* the indentation run of a line, and its text
Indent(l) == SubSeq(l, 1, BlankRun(l, 1))

Text(l) == SubSeq(StripNewline(l), BlankRun(l, 1) + 1, Len(StripNewline(l)))

\* an indented line whose text starts with '#', '*' or '/*'
IsIndentedComment(l) ==
    /\ Indent(l) # <<>>
    /\ Text(l) # <<>>
    /\ \/ Text(l)[1] \in {"#", "*"}
       \/ Len(Text(l)) >= 2 /\ Text(l)[1] = "/" /\ Text(l)[2] = "*"

\* a line that is a comment or switches off the line after it
IsOdd(l) == IsIndentedComment(l) \/ Text(l)[1] = "#" \/ EndsInBackslash(l)

OddLines(s) == {i \in 1..Len(s) : IsOdd(s[i])}

\* every line has text, no indented line is a comment, none ends in a backslash
AllPlain(s) ==
    \A i \in 1..Len(s) :
        Text(s[i]) # <<>> /\ ~IsIndentedComment(s[i]) /\ ~EndsInBackslash(s[i])

\* line i of the file has i - 1 tabs and no other indentation
IsTabLadder(s) == \A i \in 1..Len(s) : Indent(s[i]) = Tabs(i - 1)

\* the texts a further line may have: one line of the file at most is odd,
\* which is all that the stated claims need to fail
FeedTexts == IF OddLines(input) = {} THEN Texts ELSE {<<"x">>}

\* a new finder, whose default_result no verdict of results() equals
InitFile == Init /\ default_result # DEFAULT_RESULT

\* the lines that can follow the lines read, in a file of the shape
TabFeed ==
    IF Len(input) > MaxTabs THEN {}
    ELSE { Tabs(Len(input)) \o t \o e : t \in FeedTexts, e \in {<<NL>>, <<>>} }

NextTab ==
    \/ op = "init" /\ OpenFile
    \/ ReadLine(TabFeed)
    \/ ReadLastLine(TabFeed)
    \/ CloseFile
    \/ Results

SpecTab == InitFile /\ [][NextTab]_vars

\* C9, as stated: a file of two or more lines, line i indented by i - 1 tabs
\* and nothing else, resolves to Tab.
C9_TabLadderIsTab ==
    (op = "results" /\ Len(input) >= 2 /\ IsTabLadder(input))
        => ret = <<"tab", DEFAULT_TAB_WIDTH>>

\* C9, amended: such a file, scanned by a new finder, resolves to Tab when
\* every line has text, none of its indented lines is a comment and none of
\* its lines ends in a backslash.
C9_PlainTabLadderIsTab ==
    (op = "results" /\ Len(input) >= 2 /\ IsTabLadder(input) /\ AllPlain(input))
        => ret = <<"tab", DEFAULT_TAB_WIDTH>>

\* the file of lines with 0, 1, 2, 3 and 4 tabs resolved to Tab
C9_Witness ==
    /\ op = "results"
    /\ input = [i \in 1..5 |-> Tabs(i - 1) \o <<"x", NL>>]
    /\ lines[TabKey] = 4
    /\ ret = <<"tab", DEFAULT_TAB_WIDTH>>

\* the columns of the indentation of a line indented by spaces
Cols(l) == Len(Indent(l))

\* the increases of indentation between consecutive lines
Increases(s) ==
    { Cols(s[i + 1]) - Cols(s[i]) : i \in {j \in 1..(Len(s) - 1) : Cols(s[j + 1]) > Cols(s[j])} }

\* every line is indented by spaces alone
IsSpaceFile(s) == \A i \in 1..Len(s) : Indent(s[i]) = Spaces(Cols(s[i]))

\* the columns of the nesting levels of a file indented by w columns a level
Levels(w) == {w * d : d \in 0..MaxSpaceLines}

\* the widths a file of these lines may be indented by
FileWidths(s) == {w \in Widths : \A i \in 1..Len(s) : Cols(s[i]) \in Levels(w)}

\* the columns a further line may be indented by: none for the first line,
\* then a level of the file, one level deeper than the last line at most
NextCols(s) ==
    IF s = <<>> THEN {0}
    ELSE UNION { {c \in Levels(w) : c <= Cols(s[Len(s)]) + w} : w \in FileWidths(s) }

\* the lines that can follow the lines read
SpaceFeed ==
    IF Len(input) >= MaxSpaceLines THEN {}
    ELSE { Spaces(c) \o t \o <<NL>> : c \in NextCols(input), t \in FeedTexts }

NextSpace ==
    \/ op = "init" /\ OpenFile
    \/ ReadLine(SpaceFeed)
    \/ CloseFile
    \/ Results

SpecSpace == InitFile /\ [][NextSpace]_vars

\* C10, as stated: a file indented by spaces alone, whose increases of
\* indentation are all of w columns, w in 2..8, and which has one at least,
\* resolves to Space(w).
C10_SpaceStepsAreWidth ==
    \A w \in Widths :
        (op = "results" /\ IsSpaceFile(input) /\ Increases(input) = {w})
            => ret = <<"space", w>>

\* C10, amended: such a file, scanned by a new finder, resolves to Space(w)
\* when every line has text, none of its indented lines is a comment and
\* none of its lines ends in a backslash.
C10_PlainSpaceStepsAreWidth ==
    \A w \in Widths :
        (op = "results" /\ IsSpaceFile(input) /\ Increases(input) = {w}
           /\ AllPlain(input))
            => ret = <<"space", w>>

\* the file of lines at 0, 4, 8, 4 and 0 spaces resolved to Space(4)
C10_Witness ==
    /\ op = "results"
    /\ input = << <<"x", NL>>, Spaces(4) \o <<"x", NL>>, Spaces(8) \o <<"x", NL>>,
                  Spaces(4) \o <<"x", NL>>, <<"x", NL>> >>
    /\ lines[Key("space", 4)] = 2
    /\ lines[Key("mixed", 4)] = 1
    /\ ret = <<"space", 4>>

(***************************************************************************)
(* One file in the mixed scheme (a tab for every 8 columns, then spaces)   *)
(* with 2-column steps, given to a new finder by parse_file, then          *)
(* results() (SpecMixed).                                                  *)
(***************************************************************************)
\* the deepest nesting level of the file
MaxMixedDepth == 10

\* the indentation of nesting level d: tabs of 8 columns, then spaces
MixedIndent(d) == Tabs((2 * d) \div 8) \o Spaces((2 * d) % 8)

\* line i of the file sits at nesting level i - 1
IsMixedLadder(s) == \A i \in 1..Len(s) : Indent(s[i]) = MixedIndent(i - 1)

\* the texts of a line: code or a comment, and on the first line also code
\* ending in a backslash
MixedTexts == IF input = <<>> THEN Texts ELSE {<<"x">>, <<"#">>}

\* the line that can follow the lines read
MixedFeed ==
    IF Len(input) > MaxMixedDepth THEN {}
    ELSE { MixedIndent(Len(input)) \o t \o <<NL>> : t \in MixedTexts }

NextMixed ==
    \/ op = "init" /\ OpenFile
    \/ ReadLine(MixedFeed)
    \/ CloseFile
    \/ Results

SpecMixed == InitFile /\ [][NextMixed]_vars

\* C11, as stated: a file whose lines sit at the nesting levels 0, 1, .., n
\* of the mixed scheme with 2-column steps, n >= 10, resolves to Mixed(8, 2).
C11_MixedLadderIsMixed ==
    (op = "results" /\ Len(input) >= 11 /\ IsMixedLadder(input))
        => ret = <<"mixed", <<8, 2>>>>

\* C11, amended: such a file, scanned by a new finder, resolves to
\* Mixed(8, 2) when every line has text, none of its indented lines is a
\* comment and none of its lines ends in a backslash.
C11_PlainMixedLadderIsMixed ==
    (op = "results" /\ Len(input) >= 11 /\ IsMixedLadder(input)
       /\ AllPlain(input))
        => ret = <<"mixed", <<8, 2>>>>

\* the file of the levels 0 to 10 resolved to Mixed(8, 2): seven hints for
\* mixed2 against three for space2
C11_Witness ==
    /\ op = "results"
    /\ Len(input) = 11
    /\ IsMixedLadder(input)
    /\ AllPlain(input)
    /\ lines[Key("mixed", 2)] = 7
    /\ lines[Key("space", 2)] = 3
    /\ ret = <<"mixed", <<8, 2>>>>

(***************************************************************************)
(* Pairs of lines: a new finder is given lines of every kind of            *)
(* indentation and text by its caller, who may also classify the line last *)
(* given with analyse_line_type (SpecPair).                                *)
(***************************************************************************)
\* the analyse_line calls of a run
MaxPairLines == 2

\* the lines: PairIndents are the indentations (none, spaces below and from
\* 8 on, tabs, tabs then spaces, 8 spaces included, and tabs after spaces),
\* PairOddBodies the lines without code (empty, whitespace only, comments)
\* and the lines ending in a backslash
PairLineSet ==
    LET PairIndents ==
            { Spaces(n) : n \in {0, 1, 2, 6, 7, 8, 9, 16} }
                \cup { Tabs(n) : n \in 1..3 }
                \cup { Tabs(1) \o Spaces(n) : n \in {1, 2, 6, 7, 8} }
                \cup { Tabs(2) \o Spaces(2), Spaces(1) \o Tabs(1),
                       Tabs(1) \o Spaces(1) \o Tabs(1) }
        PairOddBodies ==
            { <<>>, Spaces(2), Tabs(1), <<"#">>, Spaces(2) \o <<"#">>,
              Tabs(1) \o <<"*">>, Spaces(2) \o <<"/", "*">>,
              <<"x", BACKSLASH>>, Tabs(1) \o <<"x", BACKSLASH>> }
    IN  { i \o <<"x", NL>> : i \in PairIndents }
            \cup { b \o <<NL>> : b \in PairOddBodies }
            \cup { <<>> }

PairFeed == IF Len(input) < MaxPairLines THEN PairLineSet ELSE {}

\* the caller classifies a line itself: self.analyse_line_type( l )
AnalyseLineType(L) ==
    \E l \in L :
        /\ f = -1
        /\ ret' = analyse_line_type(l)
        /\ op' = "analyse_line_type"
        /\ UNCHANGED <<self_vars, f, input, checker_vars>>

\* the text the caller classifies: the one analyse_line was last given
TypeFeed == IF input = <<>> THEN {} ELSE {StripNewline(LastLine)}

NextPair ==
    \/ AnalyseLine(PairFeed)
    \/ AnalyseLineType(TypeFeed)
    \/ Results

SpecPair == Init /\ [][NextPair]_vars

\* an analyse_line call that pairs its line with a stored line: the line is
\* not skipped, a line is stored, and the line is significant; the call
\* stores the classification of its line as previous_line_info
PairStep ==
    /\ AnalyseStep
    /\ ~skip_next_line
    /\ previous_line_info # None
    /\ previous_line_info' # None

\* the buckets that the step changes, and whether each grows by one
Changed == {k \in Keys : lines'[k] # lines[k]}

GrowByOne == \A k \in Changed : lines'[k] = lines[k] + 1

\* the last analyse_line call was not one for a skipped line
LastAnalysed ==
    /\ input # <<>>
    /\ Len(input) = 1 \/ ~EndsInBackslash(input[Len(input) - 1])

\* C12: no sequence of lines makes analyse_line, analyse_line_type or
\* results() raise: the assertion at the end of analyse_line_type is never
\* reached, every key that is incremented is a key of the histogram, and
\* the histogram keeps the fifteen keys that results() reads.
C12_NeverRaises ==
    /\ DOMAIN lines = Keys
    /\ ~Raised(ret)
    /\ ~Raised(previous_line_info)

\* a line of spaces, a tab and spaces went by after a whitespace-only line
\* and left no trace but the count of lines
C12_Witness ==
    /\ op = "analyse_line"
    /\ input = << Spaces(2) \o <<NL>>, Spaces(1) \o Tabs(1) \o <<"x", NL>> >>
    /\ nb_processed_lines = 2
    /\ previous_line_info = None
    /\ ret = None
    /\ AllZero

C14_FromZeroIsIgnored ==
    [][(PairStep /\ previous_line_info[1] = NoIndent /\ previous_line_info'[1] # NoIndent)
       => lines' = lines]_vars

\* the column that an indentation ends at, a tab counting for 8 columns
Column(info) ==
    IF info[1] = NoIndent THEN 0
    ELSE IF info[1] = TabOnly THEN 8 * Len(info[2])
    ELSE IF info[1] = Mixed THEN 8 * Len(info[2]) + Len(info[3])
    ELSE Len(info[2])

\* the buckets of the given families at a delta within 2..8, none outside
DeltaKeys(families, d) ==
    IF 2 <= d /\ d <= 8 THEN {Key(fam, d) : fam \in families} ELSE {}

\* the transition table: the buckets for the pair t of the kinds of the
\* previous line p and the current line c
TableKeys(t, p, c) ==
    IF t \in {<<NoIndent, TabOnly>>, <<TabOnly, TabOnly>>}
    THEN IF Len(c[2]) - Len(p[2]) = 1 THEN {TabKey} ELSE {}
    ELSE IF t \in {<<NoIndent, SpaceOnly>>, <<BeginSpace, SpaceOnly>>,
                   <<SpaceOnly, SpaceOnly>>}
    THEN DeltaKeys({"space"}, Len(c[2]) - Len(p[2]))
    ELSE IF t \in {<<NoIndent, BeginSpace>>, <<BeginSpace, BeginSpace>>}
    THEN DeltaKeys({"space", "mixed"}, Len(c[2]) - Len(p[2]))
    ELSE IF t = <<BeginSpace, TabOnly>>
    THEN IF Len(c[2]) = 1 THEN DeltaKeys({"mixed"}, 8 - Len(p[2])) ELSE {}
    ELSE IF t = <<TabOnly, Mixed>>
    THEN IF Len(p[2]) = Len(c[2]) THEN DeltaKeys({"mixed"}, Len(c[3])) ELSE {}
    ELSE IF t = <<Mixed, TabOnly>>
    THEN IF Len(p[2]) + 1 = Len(c[2])
         THEN DeltaKeys({"mixed"}, 8 - Len(p[3])) ELSE {}
    ELSE {}

C20_OnlyIncreasesCount ==
    [][(AnalyseStep /\ lines' # lines)
       => (/\ ~skip_next_line
           /\ previous_line_info # None
           /\ previous_line_info' # None
           /\ Column(previous_line_info') > Column(previous_line_info))]_vars

\* a line of one tab after a line of six spaces: column 8 after column 6
C20_Witness ==
    /\ op = "analyse_line"
    /\ input = << Spaces(6) \o <<"x", NL>>, Tabs(1) \o <<"x", NL>> >>
    /\ lines[Key("mixed", 2)] = 1
    /\ ret = Key("mixed", 2)

(***************************************************************************)
(* EditorConfigChecker (src/editorconfig_tools/editorconfig_tools.py).     *)
(*                                                                         *)
(* A byte of a byte-order mark is written as its two hexadecimal digits.   *)
(* An error is a tuple: the message, and for 'Charset %s found' the        *)
(* charset that fills it in.  The properties are a record of strings.  The *)
(* file that check() opens is the sequence of its lines, each with the     *)
(* terminator it has on disk; check() runs in three steps: CheckOpen, one  *)
(* CheckLine per line of the file, CheckClose.                             *)
(***************************************************************************)
\* the lines of a file that check() reads
MaxCheckLines == 3

\* the errors that self.errors may hold when a check_ method is called
MaxErrors == 1

\* found_charset = None, and the charset that 'utf-8' and 'latin1' stand for
NoCharset == "None"

\* EditorConfigToolObject.byte_order_marks: the items of the dictionary
byte_order_marks ==
    { << <<"EF", "BB", "BF">>, "utf-8-bom" >>,
      << <<"FE", "FF">>, "utf-16be" >>,
      << <<"FF", "FE">>, "utf-16le" >>,
      << <<"00", "00", "FE", "FF">>, "utf-32be" >>,
      << <<"FF", "FE", "00", "00">>, "utf-32le" >> }

RECURSIVE Orders(_)
\* the lists that hold each element of S once
Orders(S) ==
    IF S = {} THEN {<<>>}
    ELSE UNION { { <<x>> \o o : o \in Orders(S \ {x}) } : x \in S }

\* the orders in which byte_order_marks.items() may list the items: the
\* order of a dictionary is not specified
ItemOrders == Orders(byte_order_marks)

\* line.startswith(bom)
startswith(line, bom) ==
    Len(line) >= Len(bom) /\ SubSeq(line, 1, Len(bom)) = bom

RECURSIVE FoundCharset(_, _, _, _)
\* the loop of check_charset from item i on: the charset of the last item
\* whose mark starts the line
FoundCharset(line, items, i, found_charset) ==
    IF i > Len(items) THEN found_charset
    ELSE FoundCharset(line, items, i + 1,
                      IF startswith(line, items[i][1]) THEN items[i][2]
                      ELSE found_charset)

\* check_charset from "if found_charset != charset:" on
CharsetErrors(errs, found_charset, charset) ==
    IF found_charset # charset
    THEN errs \cup {<<"Charset %s found",
                      IF found_charset = NoCharset THEN "utf-8 or latin1"
                      ELSE found_charset>>}
    ELSE errs

\* the values that found_charset may have after the loop of check_charset,
\* one per order of the items
FoundCharsets(line) ==
    { FoundCharset(line, items, 1, NoCharset) : items \in ItemOrders }

\* check_charset, given the value of found_charset after the loop:
\* self.errors after the call, and the returned line
check_charset(errs, line, charset, found_charset) ==
    [errors |-> CharsetErrors(errs, found_charset,
                              IF charset \in {"utf-8", "latin1"} THEN NoCharset
                              ELSE charset),
     line |-> line]

\* re.search('^\s* \s*', line); \s is a space, a tab or a newline among the
\* characters of the model
SpaceAfterWhitespace(line) ==
    \E k \in 1..Len(line) :
        line[k] = SP /\ \A j \in 1..(k - 1) : line[j] \in {SP, TAB, NL}

\* check_indentation: self.errors after the call, and the returned line
check_indentation(errs, line, indent_style) ==
    [errors |-> IF indent_style = "space" /\ Contains(line, TAB)
                THEN errs \cup {<<"Tab indentation found">>}
                ELSE IF indent_style = "tab" /\ SpaceAfterWhitespace(line)
                THEN errs \cup {<<"Space indentation found">>}
                ELSE errs,
     line |-> line]

\* len(re.search('^ *', line).group(0))
LeadingSpaces(line) ==
    CHOOSE n \in 0..Len(line) :
        /\ \A j \in 1..n : line[j] = SP
        /\ n = Len(line) \/ line[n + 1] # SP

\* property_name in properties
Has(props, property_name) == property_name \in DOMAIN props

\* int(s) for the strings that the properties of the model hold; -1 stands
\* for the ValueError that int() raises on a string that spells no number
int(s) == CASE s = "2" -> 2 [] s = "4" -> 4 [] OTHER -> -1

\* EditorConfigToolObject.line_endings
line_endings == [crlf |-> <<CR, NL>>, cr |-> <<CR>>, lf |-> <<NL>>]

\* EditorConfigToolObject.newlines[nl]: the name of a line ending
newlines(nl) == CHOOSE name \in DOMAIN line_endings : line_endings[name] = nl

\* check(): end_of_line, the property when it names a line ending, "None"
\* for None
EndOfLine(props) ==
    IF Has(props, "end_of_line") /\ props.end_of_line \in DOMAIN line_endings
    THEN props.end_of_line
    ELSE "None"

\* the terminator that a line of the file ends with on disk
Terminator(raw) ==
    IF Len(raw) >= 2 /\ raw[Len(raw) - 1] = CR /\ raw[Len(raw)] = NL
    THEN <<CR, NL>>
    ELSE IF LastChars(raw) = <<NL>> THEN <<NL>>
    ELSE IF LastChars(raw) = <<CR>> THEN <<CR>>
    ELSE <<>>

\* a line as open(filename, 'U...') hands it over: its terminator has
\* become '\n'
Universal(raw) ==
    SubSeq(raw, 1, Len(raw) - Len(Terminator(raw)))
    \o (IF Terminator(raw) = <<>> THEN <<>> ELSE <<NL>>)

\* the terminators that f.newlines reports for the file; the file is read
\* ahead whole before its first line is handed over
Newlines(fl) == { Terminator(fl[i]) : i \in DOMAIN fl } \ {<<>>}

\* f.newlines when it is a tuple: '\r', '\n', '\r\n' in this order
NewlinesTuple(fl) ==
    SelectSeq(<< <<CR>>, <<NL>>, <<CR, NL>> >>, LAMBDA nl : nl \in Newlines(fl))

RECURSIVE Replace(_, _)
\* line.replace('\n', nl)
Replace(line, nl) ==
    IF line = <<>> THEN <<>>
    ELSE (IF Head(line) = NL THEN nl ELSE <<Head(line)>>)
         \o Replace(Tail(line), nl)

\* the characters that \r?\n?$ matches at the end of the line
LineEnd(line) ==
    IF Len(line) >= 2 /\ line[Len(line) - 1] = CR /\ line[Len(line)] = NL
    THEN 2
    ELSE IF LastChars(line) \in {<<CR>>, <<NL>>} THEN 1
    ELSE 0

RECURSIVE TrailingBlanks(_, _)
\* the spaces and tabs that end the first n characters of the line
TrailingBlanks(line, n) ==
    IF n > 0 /\ IsBlank(line[n]) THEN 1 + TrailingBlanks(line, n - 1) ELSE 0

\* re.sub(r'[ \t]*(\r?\n?)$', r'\1', line)
TrimTrailing(line) ==
    SubSeq(line, 1, Len(line) - LineEnd(line)
                    - TrailingBlanks(line, Len(line) - LineEnd(line)))
    \o SubSeq(line, Len(line) - LineEnd(line) + 1, Len(line))

\* check_trailing_whitespace: self.errors after the call, and the returned
\* line
check_trailing_whitespace(errs, line, trim_trailing_whitespace, fix) ==
    IF trim_trailing_whitespace = "true"
    THEN [errors |-> IF TrimTrailing(line) # line
                     THEN errs \cup {<<"Trailing whitespace found">>}
                     ELSE errs,
          line |-> IF fix THEN TrimTrailing(line) ELSE line]
    ELSE [errors |-> errs, line |-> line]

\* check_final_newline for a line that is not None: self.errors after the
\* call, and the returned line
check_final_newline(errs, line, insert_final_newline, fix) ==
    LET has_final_newline == LastChars(line) \in {<<CR>>, <<NL>>}
        without == SubSeq(line, 1, Len(line) - LineEnd(line))
    IN  IF line = <<>> THEN [errors |-> errs, line |-> line] ELSE
        [errors |->
             IF /\ insert_final_newline \in {"true", "false"}
                /\ insert_final_newline
                       # (IF has_final_newline THEN "true" ELSE "false")
             THEN errs \cup {IF has_final_newline
                             THEN <<"Final newline found">>
                             ELSE <<"No final newline found">>}
             ELSE errs,
         line |->
             IF fix /\ insert_final_newline = "true" THEN without \o <<NL>>
             ELSE IF fix /\ insert_final_newline = "false" THEN without
             ELSE line]

\* check(): the test that decides whether a line counts as correctly indented
CountsAsIndented(line, props) ==
    IF Has(props, "indent_style") /\ props.indent_style = "space"
    THEN \/ LeadingSpaces(line) <= 1
         \/ LeadingSpaces(line) % int(props.indent_size) = 0
    ELSE TRUE

\* check(): the condition under which a line is handed to check_indentation
IndentationIsChecked(props) ==
    /\ Has(props, "indent_style")
    /\ Has(props, "tab_width")
    /\ props.indent_size = props.tab_width

\* check(): what int(properties['indent_size']) raises for the line, None
\* when it is not reached or raises nothing
SizeRaises(line, props) ==
    IF /\ Has(props, "indent_style")
       /\ props.indent_style = "space"
       /\ LeadingSpaces(line) > 1
    THEN (IF ~Has(props, "indent_size") THEN KeyError
          ELSE IF int(props.indent_size) < 0 THEN <<"ValueError">>
          ELSE None)
    ELSE None

\* check(): self.errors after handle_line(self.check_charset, 'charset') on
\* the first line
AfterCharset(errs, line, index, props, found_charset) ==
    IF index = 0 /\ Has(props, "charset")
    THEN check_charset(errs, line, props.charset, found_charset).errors
    ELSE errs

\* check(): self.errors after handle_line(self.check_indentation,
\* 'indent_style')
AfterIndentation(errs, line, props) ==
    IF IndentationIsChecked(props)
    THEN check_indentation(errs, line, props.indent_style).errors
    ELSE errs

\* check(): one pass of the loop on the line that the file hands over:
\* the exception it raises (None when it raises none), self.errors, the
\* line and whether the line counts as correctly indented
LoopBody(errs, line, index, props, found_charset, fix, nl) ==
    LET first == AfterCharset(errs, line, index, props, found_charset)
        \* handle_line(self.check_trailing_whitespace, ...)
        trimmed == IF Has(props, "trim_trailing_whitespace")
                   THEN check_trailing_whitespace(
                            first, line, props.trim_trailing_whitespace, fix)
                   ELSE [errors |-> first, line |-> line]
        \* properties['indent_size'] raises KeyError in the condition that
        \* guards check_indentation
        SizeIsMissing == /\ Has(props, "indent_style")
                         /\ Has(props, "tab_width")
                         /\ ~Has(props, "indent_size")
    IN  IF SizeIsMissing
        THEN [raises |-> KeyError, errors |-> trimmed.errors,
              line |-> trimmed.line, correct |-> FALSE]
        ELSE IF SizeRaises(trimmed.line, props) # None
        THEN [raises |-> SizeRaises(trimmed.line, props),
              errors |-> AfterIndentation(trimmed.errors, trimmed.line,
                                          props),
              line |-> trimmed.line, correct |-> FALSE]
        ELSE [raises |-> None,
              errors |-> AfterIndentation(trimmed.errors, trimmed.line,
                                          props),
              line |-> IF fix /\ nl # None THEN Replace(trimmed.line, nl)
                       ELSE trimmed.line,
              correct |-> CountsAsIndented(trimmed.line, props)]

RECURSIVE Joined(_)
\* ','.join(names)
Joined(names) ==
    IF Len(names) = 0 THEN <<>>
    ELSE IF Len(names) = 1 THEN <<names[1]>>
    ELSE <<names[1], ",">> \o Joined(Tail(names))

\* check(): self.errors after the tests of the line endings of the file
AfterLineEndings(errs, fl, props, nl) ==
    IF Cardinality(Newlines(fl)) > 1 /\ EndOfLine(props) # "None"
    THEN errs \cup {<<"Mixed line endings found: %s",
                      Joined([i \in DOMAIN NewlinesTuple(fl) |->
                                  newlines(NewlinesTuple(fl)[i])])>>}
    ELSE IF /\ EndOfLine(props) # "None"
            /\ Newlines(fl) # {}
            /\ nl # NewlinesTuple(fl)[1]
    THEN errs \cup {<<"Incorrect line ending found: %s",
                      newlines(NewlinesTuple(fl)[1])>>}
    ELSE errs

\* check(): self.errors after the test of the share of correctly indented
\* lines
AfterShare(errs, last, correct) ==
    IF last # 0 /\ 20 * correct < last
    THEN errs \cup {<<"Over 5% of lines appear to be incorrectly indented">>}
    ELSE errs

\* check() after the loop, up to the return: the exception it raises (None
\* when it raises none), self.errors before they are returned, and the list
\* that is written to the file; read is the number of lines the loop has
\* read, line being None when it is 0
AfterLoop(errs, fl, props, fix, nl, line, read, last, correct, out) ==
    LET shared == AfterShare(AfterLineEndings(errs, fl, props, nl),
                             last, correct)
        \* handle_line(self.check_final_newline, 'insert_final_newline')
        final == IF read > 0 /\ Has(props, "insert_final_newline")
                 THEN check_final_newline(shared, line,
                                          props.insert_final_newline, fix)
                 ELSE [errors |-> shared, line |-> line]
        last_line == IF nl # None THEN Replace(final.line, nl)
                     ELSE final.line
    IN  IF fix /\ read > 0 /\ out = <<>>
        THEN [raises |-> <<"IndexError">>, errors |-> final.errors,
              lines |-> out]
        ELSE [raises |-> None, errors |-> final.errors,
              lines |-> IF fix /\ read > 0
                        THEN [out EXCEPT ![Len(out)] = last_line]
                        ELSE out]

\* check() up to the loop, on a call <<properties, file>>: the file is
\* opened and the locals are set
CheckOpen(Calls) ==
    \E call \in Calls :
        /\ cf = -1
        /\ f = -1
        /\ op \in {"init", "check", "check_raised"}
        /\ properties' = call[1]
        /\ file' = call[2]
        /\ check_lines' = <<>>
        /\ cur_line' = None
        /\ newline' = IF EndOfLine(call[1]) # "None"
                      THEN line_endings[EndOfLine(call[1])]
                      ELSE None
        /\ lineno' = 0
        /\ correctly_indented' = 0
        /\ cf' = 0
        /\ input' = <<>>
        /\ op' = "check_open"
        /\ ret' = None
        /\ UNCHANGED <<self_vars, f, errors, auto_fix>>

\* check(): one pass of the loop over the lines of the file; an exception
\* ends the call and leaves self.errors as it is
CheckLine ==
    /\ cf >= 0
    /\ cf < Len(file)
    /\ \E found_charset \in (IF cf = 0 /\ Has(properties, "charset")
                              THEN FoundCharsets(Universal(file[cf + 1]))
                              ELSE {NoCharset}) :
        \* f.newlines[0]: the first terminator of the tuple, or the first
        \* character of the string that f.newlines is when the file has one
        \* kind of terminator
        LET nl == IF /\ EndOfLine(properties) = "None"
                     /\ Newlines(file) # {}
                  THEN (IF Cardinality(Newlines(file)) > 1
                        THEN NewlinesTuple(file)[1]
                        ELSE <<NewlinesTuple(file)[1][1]>>)
                  ELSE newline
            pass == LoopBody(errors, Universal(file[cf + 1]), cf, properties,
                             found_charset, auto_fix, nl)
        IN  /\ lineno' = cf
            /\ newline' = nl
            /\ input' = Append(input, Universal(file[cf + 1]))
            /\ errors' = pass.errors
            /\ IF pass.raises # None
               THEN /\ op' = "check_raised"
                    /\ ret' = pass.raises
                    /\ cf' = -1
                    /\ UNCHANGED <<correctly_indented, check_lines, cur_line>>
               ELSE /\ op' = "check_line"
                    /\ ret' = None
                    /\ cf' = cf + 1
                    /\ correctly_indented' =
                           IF pass.correct THEN correctly_indented + 1
                           ELSE correctly_indented
                    /\ check_lines' =
                           IF auto_fix /\ nl # None
                           THEN Append(check_lines, pass.line)
                           ELSE check_lines
                    /\ cur_line' = pass.line
    /\ UNCHANGED <<self_vars, f, properties, auto_fix, file>>

\* check() after the loop: the line endings, the share of correctly
\* indented lines and the final newline are tested, the file is written
\* when auto_fix is set, the errors are returned and self.errors is cleared;
\* an exception ends the call before the file is written
CheckClose ==
    /\ cf >= 0
    /\ cf = Len(file)
    /\ LET after == AfterLoop(errors, file, properties, auto_fix, newline,
                              cur_line, cf, lineno, correctly_indented,
                              check_lines)
       IN  IF after.raises # None
           THEN /\ op' = "check_raised"
                /\ ret' = after.raises
                /\ errors' = after.errors
                /\ UNCHANGED <<file, check_lines>>
           ELSE /\ op' = "check"
                /\ ret' = after.errors
                /\ errors' = {}
                /\ check_lines' = after.lines
                /\ file' = IF auto_fix THEN after.lines ELSE file
    /\ cf' = -1
    /\ UNCHANGED <<self_vars, f, input, properties, lineno,
                   correctly_indented, auto_fix, newline, cur_line>>

\* a call of check_indentation(line, indent_style) on the checker; input
\* holds the line and properties the style of the call
CheckIndentation(L, Styles) ==
    \E l \in L, indent_style \in Styles :
        /\ cf = -1
        /\ f = -1
        /\ op \in {"init", "check_indentation", "check_charset"}
        /\ Cardinality(errors) <= MaxErrors
        /\ errors' = check_indentation(errors, l, indent_style).errors
        /\ ret' = check_indentation(errors, l, indent_style).line
        /\ input' = <<l>>
        /\ properties' = [indent_style |-> indent_style]
        /\ op' = "check_indentation"
        /\ UNCHANGED <<self_vars, f, lineno, correctly_indented, cf,
                       auto_fix, file, check_lines, newline, cur_line>>

\* a call of check_charset(line, charset) on the checker; input holds the
\* line and properties the charset of the call
CheckCharset(L, Charsets) ==
    /\ cf = -1
    /\ f = -1
    /\ op \in {"init", "check_indentation", "check_charset"}
    /\ Cardinality(errors) <= MaxErrors
    /\ \E l \in L :
        \E found_charset \in FoundCharsets(l), charset \in Charsets :
            /\ errors' =
                   check_charset(errors, l, charset, found_charset).errors
            /\ ret' = check_charset(errors, l, charset, found_charset).line
            /\ input' = <<l>>
            /\ properties' = [charset |-> charset]
            /\ op' = "check_charset"
            /\ UNCHANGED <<self_vars, f, lineno, correctly_indented, cf,
                           auto_fix, file, check_lines, newline,
                           cur_line>>

\* the charsets of an 'charset' property
Charsets ==
    {"utf-8", "latin1", "utf-8-bom", "utf-16be", "utf-16le", "utf-32be",
     "utf-32le"}

\* the lines whose indentation is checked
IndentLines ==
    { i \o t \o <<NL>> :
        i \in {<<>>, <<SP>>, <<SP, SP>>, <<SP, SP, SP>>, <<SP, SP, SP, SP>>,
               <<TAB>>, <<SP, TAB>>, <<TAB, SP>>},
        t \in {<<"x">>} }
    \cup {<<"x", TAB, "y", NL>>, <<"x", SP, "y", NL>>}

\* the first lines whose charset is checked: one per byte-order mark, and one
\* without a mark
CharsetLines ==
    { item[1] \o <<"x", NL>> : item \in byte_order_marks } \cup {<<"x", NL>>}

\* the properties that check() is called with
CheckProps ==
    { [indent_style |-> s, indent_size |-> "2", tab_width |-> w] :
        s \in {"space", "tab"}, w \in {"2", "4"} }
    \cup { [charset |-> c] : c \in Charsets }

RECURSIVE FilesOf(_, _)
\* the files of at most n lines, each line among L
FilesOf(L, n) ==
    IF n = 0 THEN {<<>>}
    ELSE FilesOf(L, n - 1)
         \cup { Append(fl, l) : fl \in FilesOf(L, n - 1), l \in L }

\* the calls of check() on a new checker: the properties and the file
CheckCalls ==
    { <<props, fl>> :
        props \in { p \in CheckProps : ~Has(p, "charset") },
        fl \in FilesOf(IndentLines, MaxCheckLines) }
    \cup
    { <<props, <<l>> \o fl>> :
        props \in { p \in CheckProps : Has(p, "charset") },
        l \in CharsetLines,
        fl \in FilesOf({<<"x", NL>>}, MaxCheckLines - 1) }

\* a checker that has checked a file checks files of one line
NextCheck ==
    \/ CheckOpen(IF op = "init" THEN CheckCalls
                 ELSE { <<props, <<l>> >> :
                          props \in CheckProps,
                          l \in {<<"x", NL>>, <<SP, SP, SP, "x", NL>>,
                                 <<TAB, "x", NL>>} })
    \/ CheckLine
    \/ CheckClose
    \/ CheckIndentation(IndentLines, {"space", "tab"})
    \/ CheckCharset(CharsetLines, Charsets)

SpecCheck == Init /\ [][NextCheck]_vars

\* the lines of a file whose indentation is a number of spaces that is not a
\* multiple of n
NotMultiple(s, n) ==
    { i \in DOMAIN s : LeadingSpaces(s[i]) % n # 0 }

\* every line of the file is indented by a multiple of n spaces
AllMultiples(s, n) ==
    \A i \in DOMAIN s :
        /\ ~Contains(Indent(s[i]), TAB)
        /\ Len(Indent(s[i])) % n = 0

\* the errors that are about indentation
IndentationErrors ==
    { <<"Tab indentation found">>, <<"Space indentation found">>,
      <<"Over 5% of lines appear to be incorrectly indented">>,
      <<"Over 30% of lines appear to be incorrectly indented">> }

\* C15: check() with indent_style = space and indent_size = 2 returns 'Over
\* 30% of lines appear to be incorrectly indented' for a file in which more
\* than 30% of the lines are indented by a number of spaces that is not a
\* multiple of 2, and returns no indentation error for a file whose every line
\* is indented by a multiple of 2 spaces.
C15_Over30PercentIsReported ==
    (/\ op = "check"
     /\ Has(properties, "indent_style")
     /\ properties.indent_style = "space"
     /\ properties.indent_size = "2")
    => /\ 10 * Cardinality(NotMultiple(input, 2)) > 3 * Len(input)
            => <<"Over 30% of lines appear to be incorrectly indented">>
                   \in ret
       /\ AllMultiples(input, 2) => ret \cap IndentationErrors = {}

\* the errors that check_indentation has to record: a tab in the indentation
\* under 'space', a space in the indentation under 'tab'
IndentationFaults(line, indent_style) ==
    (IF indent_style = "space" /\ Contains(Indent(line), TAB)
     THEN {<<"Tab indentation found">>} ELSE {})
    \cup
    (IF indent_style = "tab" /\ Contains(Indent(line), SP)
     THEN {<<"Space indentation found">>} ELSE {})

\* C16: check_indentation records 'Tab indentation found' iff indent_style is
\* 'space' and the leading whitespace of the line contains a tab, and 'Space
\* indentation found' iff indent_style is 'tab' and the leading whitespace
\* contains a space; what follows the first character that is not whitespace
\* causes neither error, and the line is returned unchanged.
C16_OnlyTheIndentationCounts ==
    [][op' = "check_indentation"
       => /\ errors' = errors \cup
                 IndentationFaults(input'[1], properties'.indent_style)
          /\ ret' = input'[1]]_vars

\* the charsets whose byte-order mark starts the line
MarksOf(line) ==
    { item[2] : item \in { i \in byte_order_marks : startswith(line, i[1]) } }

\* the errors among which check_charset has to record one when the line does
\* not fit the expected charset
CharsetFaults(line) ==
    IF MarksOf(line) = {} THEN {<<"Charset %s found", "utf-8 or latin1">>}
    ELSE { <<"Charset %s found", c>> : c \in MarksOf(line) }

\* C17: check_charset records no error when the line begins with the
\* byte-order mark of the expected charset, or when the expected charset is
\* utf-8 and the line begins with no mark; in every other case it records
\* exactly one error 'Charset <found> found', <found> being the charset whose
\* mark starts the line, or 'utf-8 or latin1' when there is none; and the
\* charset found does not depend on the order of the table of marks.
C17_CharsetByMark ==
    /\ [][op' = "check_charset"
          => IF \/ properties'.charset \in MarksOf(input'[1])
                \/ /\ properties'.charset = "utf-8"
                   /\ MarksOf(input'[1]) = {}
             THEN errors' = errors
             ELSE \E e \in CharsetFaults(input'[1]) :
                      errors' = errors \cup {e}]_vars
    /\ [](op = "check_charset" => Cardinality(FoundCharsets(LastLine)) = 1)

(***************************************************************************)
(* Lines with each terminator a file may use.  analyse_line removes a      *)
(* trailing '\n' and nothing else: open( fname ) reads the bytes of the    *)
(* file as they are, so a line of a file with '\r\n' endings reaches       *)
(* analyse_line with both characters.                                      *)
(***************************************************************************)
\* the lines of one run of the caller
MaxTermLines == 2

\* the lines: Terminators are the terminators of a line (none, '\n',
\* '\r\n'), TermBodies what a line holds before its terminator
TermLines ==
    LET Terminators == {<<>>, <<NL>>, <<CR, NL>>}
        TermBodies ==
            { <<>>, <<SP, SP>>, <<TAB>>, <<"x">>, <<"x", BACKSLASH>>,
              <<SP, SP, "x">>, <<SP, SP, SP, SP, "x">>, <<TAB, "x">>,
              <<TAB, TAB, "x">> }
    IN  { b \o t : b \in TermBodies, t \in Terminators }

TermFeed == IF Len(input) < MaxTermLines THEN TermLines ELSE {}

NextTerm ==
    \/ AnalyseLine(TermFeed)
    \/ AnalyseLineType(TypeFeed)
    \/ Results

SpecTerm == Init /\ [][NextTerm]_vars

\* the line without its terminator, '\n' or '\r\n'
Chomp(l) ==
    IF Len(l) >= 2 /\ SubSeq(l, Len(l) - 1, Len(l)) = <<CR, NL>>
    THEN SubSeq(l, 1, Len(l) - 2)
    ELSE IF LastChars(l) = <<NL>> THEN SubSeq(l, 1, Len(l) - 1)
    ELSE l

\* the line holds nothing but spaces and tabs before its terminator
OnlyBlanks(l) == \A i \in 1..Len(Chomp(l)) : IsBlank(Chomp(l)[i])

\* C21: whatever its terminator ('\n', '\r\n' or none), a line that holds
\* only the terminator, or only spaces and tabs before it, is rejected: it
\* is classified neither as unindented nor as indented, it is no evidence
\* (no bucket and no hint counter moves, nothing is returned); and a
\* backslash directly before the terminator sets the skip flag.
C21_TerminatorIsRemoved ==
    [][AnalyseStep
       => /\ (OnlyBlanks(input'[Len(input')]) /\ ~skip_next_line)
                => /\ previous_line_info' = None
                   /\ ret' = None
                   /\ lines' = lines
                   /\ nb_indent_hint' = nb_indent_hint
          /\ LastChars(Chomp(input'[Len(input')])) = <<BACKSLASH>>
                => skip_next_line']_vars

(***************************************************************************)
(* analyse_line_type on its own: the caller holds one text and classifies  *)
(* it.                                                                     *)
(***************************************************************************)
\* the longest run of spaces of a text
MaxTypeSpaces == 9

\* the lines: TypeIndents are the indentation runs (none, spaces, tabs, tabs
\* then spaces, and runs with a space before a tab), TypeTexts what follows
\* the run (nothing, code, and the starts of comments)
TypeLines ==
    LET TypeIndents ==
            { Spaces(n) : n \in 0..MaxTypeSpaces }
                \cup { Tabs(n) : n \in 1..2 }
                \cup { Tabs(t) \o Spaces(n) :
                         t \in 1..2, n \in {1, 7, 8, MaxTypeSpaces} }
                \cup { Spaces(1) \o Tabs(1), Tabs(1) \o Spaces(1) \o Tabs(1),
                       Spaces(2) \o Tabs(1) \o Spaces(2) }
        TypeTexts ==
            { <<>>, <<"x">>, <<"#">>, <<"*">>, <<"/", "*">>, <<"/", "x">>,
              <<"x", "#">>, <<"x", "*">> }
    IN  { i \o t : i \in TypeIndents, t \in TypeTexts }

\* a new finder, and the text its caller holds
InitType ==
    /\ lines = EmptyLines
    /\ nb_processed_lines = 0
    /\ nb_indent_hint = 0
    /\ skip_next_line = FALSE
    /\ previous_line_info = None
    /\ default_result \in Defaults
    /\ f = -1
    /\ op = "init"
    /\ ret = None
    /\ input \in { <<l>> : l \in TypeLines }
    /\ NoChecker

NextType == AnalyseLineType(TypeFeed)

SpecType == InitType /\ [][NextType]_vars

\* the text that was classified
Typed == input[1]

\* the text starts as a comment does
StartsComment(t) ==
    \/ t[1] \in {"#", "*"}
    \/ Len(t) >= 2 /\ t[1] = "/" /\ t[2] = "*"

\* a run that no rule accepts: a space before a tab, or tabs followed by 8
\* spaces or more
RunIsGarbage(run) ==
    \/ \E j, k \in 1..Len(run) : j < k /\ run[j] = SP /\ run[k] = TAB
    \/ /\ Contains(run, TAB)
       /\ Len(run) - CharRun(run, 1, TAB) >= 8

RunType(run) ==
    IF RunIsGarbage(run) THEN None
    ELSE IF ~Contains(run, SP) THEN <<TabOnly, run>>
    ELSE IF ~Contains(run, TAB)
    THEN (IF Len(run) < 8 THEN <<BeginSpace, run>> ELSE <<SpaceOnly, run>>)
    ELSE <<Mixed, SubSeq(run, 1, CharRun(run, 1, TAB)),
           SubSeq(run, CharRun(run, 1, TAB) + 1, Len(run))>>

AfterBackslash ==
    input # <<>> /\ LastChars(Chomp(LastLine)) = <<BACKSLASH>>

\* C24: a line is skipped iff the line given just before it ends, its
\* terminator removed, in a backslash, whether that line was skipped itself
\* or not: the flag is computed anew from every line.  A skipped line
\* returns nothing and changes neither the histogram, the hint counter nor
\* the stored line; a line that is not skipped is classified and stored.
C24_SkipFollowsEveryBackslash ==
    /\ [](skip_next_line <=> AfterBackslash)
    /\ [][AnalyseStep
          => /\ nb_processed_lines' = nb_processed_lines + 1
             /\ IF AfterBackslash
                THEN /\ ret' = None
                     /\ lines' = lines
                     /\ nb_indent_hint' = nb_indent_hint
                     /\ previous_line_info' = previous_line_info
                ELSE previous_line_info' =
                         analyse_line_type(StripNewline(input'[Len(input')]))
            ]_vars

\* two lines ending in a backslash, the second one skipped, and the line
\* after them skipped as well: the unindented first line is still stored
C24_Witness ==
    /\ op = "analyse_line"
    /\ input = << <<"x", BACKSLASH, NL>>, <<TAB, "x", BACKSLASH, NL>>,
                  <<TAB, TAB, "x", NL>> >>
    /\ previous_line_info = <<NoIndent, <<>>>>
    /\ ~skip_next_line
    /\ AllZero

(***************************************************************************)
(* clear() against a new finder, checked under Spec: input holds the lines *)
(* given since the finder was made or last cleared.                        *)
(***************************************************************************)
\* the fields of a finder that __init__ has just made
Fresh ==
    [lines |-> EmptyLines,
     nb_processed_lines |-> 0,
     nb_indent_hint |-> 0,
     skip_next_line |-> FALSE,
     previous_line_info |-> None,
     ret |-> None]

RECURSIVE OnFresh(_, _)
\* the fields of a new finder after the first n lines of s
OnFresh(s, n) ==
    IF n = 0 THEN Fresh ELSE analyse_line(OnFresh(s, n - 1), s[n])

\* the finder holds what a new finder holds after the same lines
SameAsFresh(me) ==
    /\ lines = me.lines
    /\ nb_processed_lines = me.nb_processed_lines
    /\ nb_indent_hint = me.nb_indent_hint
    /\ skip_next_line = me.skip_next_line
    /\ previous_line_info = me.previous_line_info

\* C25: after clear() the finder is like a new one with the same
\* default_result: the fifteen buckets are zero, no line is stored, the skip
\* flag is off and both counters are zero; so the lines given after clear()
\* leave the histogram, and give the verdict, that they do on a new finder,
\* whatever was analysed before.
C25_ClearIsFresh ==
    /\ op = "clear"
         => /\ DOMAIN lines = Keys
            /\ AllZero
            /\ previous_line_info = None
            /\ ~skip_next_line
            /\ nb_processed_lines = 0
            /\ nb_indent_hint = 0
    /\ SameAsFresh(OnFresh(input, Len(input)))
    /\ op = "results"
         => ret = results(OnFresh(input, Len(input)).lines, default_result)

\* clear() was called on a finder that had been used
C25_Witness ==
    /\ op = "clear"
    /\ input = <<>>
    /\ AllZero
    /\ previous_line_info = None
    /\ ~skip_next_line

(***************************************************************************)
(* The default paths of results(), checked under SpecResults.              *)
(***************************************************************************)
\* n is the largest count of a family in the histogram
IsTop(h, family, n) ==
    /\ \A i \in 2..8 : h[Key(family, i)] <= n
    /\ \E i \in 2..8 : h[Key(family, i)] = n

\* max_space equals tab and max_space >= max_mixed
SpaceTiesTab(h) ==
    /\ IsTop(h, "space", h[TabKey])
    /\ \A i \in 2..8 : h[Key("mixed", i)] <= h[TabKey]

\* C26: results() answers by a default_result path iff max_space equals tab
\* and max_space >= max_mixed, the all-zero histogram included; and when it
\* enters the space branch or the mixed branch the scan finds a width, so
\* the default return inside these branches is never taken.
C26_DefaultOnlyOnTie ==
    op = "results"
    => /\ default_result # DEFAULT_RESULT
            => (ret = default_result <=> SpaceTiesTab(lines))
       /\ ResultsBranch(lines) = "space" => ScanResult(lines, "space") # None
       /\ ResultsBranch(lines) = "mixed" => ScanResult(lines, "mixed") # None

\* space and tab level at a count above zero, mixed not above them: the
\* default is returned; and a space branch whose scan found its width
C26_Witness ==
    /\ op = "results"
    /\ default_result # DEFAULT_RESULT
    /\ \/ /\ lines[TabKey] >= 1
          /\ SpaceTiesTab(lines)
          /\ ret = default_result
       \/ /\ ResultsBranch(lines) = "mixed"
          /\ IsTop(lines, "mixed", 1)
          /\ ret[1] = "mixed"

\* no width of the family has a count more than 10% above the count of w,
\* which is at least 1
WithinTenPercent(h, family, w) ==
    /\ h[Key(family, w)] >= 1
    /\ \A v \in 2..8 : 10 * h[Key(family, v)] <= 11 * h[Key(family, w)]

\* C27: when results() returns ('space', w) from the space scan, space[w]
\* is at least 1 and every space[v], v in 2..8, is at most the integer part
\* of 1.1 * space[w]; likewise for the mixed buckets when it returns
\* ('mixed', (8, w)).
C27_ChosenWithinTenPercent ==
    (op = "results" /\ default_result # DEFAULT_RESULT)
    => /\ ret[1] = "space" => WithinTenPercent(lines, "space", ret[2])
       /\ ret[1] = "mixed" => WithinTenPercent(lines, "mixed", ret[2][2])

\* the chosen width does not hold the largest count of its family
C27_Witness ==
    /\ op = "results"
    /\ default_result # DEFAULT_RESULT
    /\ ret[1] = "space"
    /\ \E v \in 2..8 : lines[Key("space", v)] > lines[Key("space", ret[2])]

(***************************************************************************)
(* check() on files with each line ending, on a checker that fixes and on  *)
(* one that does not.                                                      *)
(***************************************************************************)
\* the lines of a file whose line endings are checked
MaxFixLines == 2

\* EditorConfigChecker(fix): a new checker
InitFix ==
    /\ lines = EmptyLines
    /\ nb_processed_lines = 0
    /\ nb_indent_hint = 0
    /\ skip_next_line = FALSE
    /\ previous_line_info = None
    /\ default_result = DEFAULT_RESULT
    /\ f = -1
    /\ op = "init"
    /\ ret = None
    /\ input = <<>>
    /\ errors = {}
    /\ properties = <<>>
    /\ lineno = 0
    /\ correctly_indented = 0
    /\ cf = -1
    /\ file = <<>>
    /\ check_lines = <<>>
    /\ newline = None
    /\ cur_line = None
    /\ auto_fix \in BOOLEAN

\* the properties about line endings and trailing whitespace; With adds a
\* property unless its value is "None"
FixProps ==
    LET With(props, property_name, value) ==
            IF value = "None" THEN props
            ELSE [n \in DOMAIN props \cup {property_name} |->
                      IF n = property_name THEN value ELSE props[n]]
    IN
    { With(With(With(<<>>, "end_of_line", e),
                "trim_trailing_whitespace", t),
           "insert_final_newline", n) :
        e \in {"None", "lf", "crlf"},
        t \in {"None", "true"},
        n \in {"None", "true", "false"} }

\* the files of at most MaxFixLines lines: FixBodies is what a line holds
\* before its terminator, FixLines the lines that end with '\n', '\r\n' or
\* '\r'; the last line may have no terminator
FixFiles ==
    LET FixBodies == {<<"x">>, <<"x", SP>>, <<SP, SP, "x">>}
        FixLines == { b \o t : b \in FixBodies,
                              t \in {<<NL>>, <<CR, NL>>, <<CR>>} }
    IN
    {<<>>} \cup
    { Append(fl, l) :
        fl \in FilesOf(FixLines, MaxFixLines - 1),
        l \in FixLines \cup FixBodies }

\* the calls of check() on a checker that has checked a file
FixAgain ==
    { <<props, <<l>> >> :
        props \in {<<>>, [trim_trailing_whitespace |-> "true"]},
        l \in {<<"x", NL>>, <<"x", SP, NL>>} }

NextFix ==
    \/ CheckOpen(IF op = "init"
                 THEN { <<props, fl>> : props \in FixProps, fl \in FixFiles }
                 ELSE FixAgain)
    \/ CheckLine
    \/ CheckClose

SpecFix == InitFix /\ [][NextFix]_vars

\* check() under properties with which a pass of the loop raises:
\* indent_size is 'tab', or is missing beside tab_width
NextRaise ==
    \/ CheckOpen(IF op = "init"
                 THEN { <<props, fl>> :
                          props \in
                              { [trim_trailing_whitespace |-> "true",
                                 indent_style |-> "space",
                                 indent_size |-> "tab"],
                                [trim_trailing_whitespace |-> "true",
                                 indent_style |-> "space",
                                 tab_width |-> "4"],
                                [trim_trailing_whitespace |-> "true",
                                 indent_style |-> "space",
                                 indent_size |-> "2", tab_width |-> "2"],
                                [trim_trailing_whitespace |-> "true"] },
                          fl \in FixFiles }
                 ELSE FixAgain)
    \/ CheckLine
    \/ CheckClose

SpecRaise == InitFix /\ [][NextRaise]_vars

\* the file has what the error reports
Justified(e, fl, props) ==
    CASE e[1] = "Trailing whitespace found" ->
             /\ Has(props, "trim_trailing_whitespace")
             /\ props.trim_trailing_whitespace = "true"
             /\ \E i \in DOMAIN fl :
                    TrimTrailing(Universal(fl[i])) # Universal(fl[i])
      [] e[1] = "Final newline found" ->
             /\ Has(props, "insert_final_newline")
             /\ props.insert_final_newline = "false"
             /\ fl # <<>>
             /\ Terminator(fl[Len(fl)]) # <<>>
      [] e[1] = "No final newline found" ->
             /\ Has(props, "insert_final_newline")
             /\ props.insert_final_newline = "true"
             /\ fl # <<>>
             /\ Terminator(fl[Len(fl)]) = <<>>
      [] e[1] = "Mixed line endings found: %s" ->
             /\ EndOfLine(props) # "None"
             /\ Cardinality(Newlines(fl)) > 1
      [] e[1] = "Incorrect line ending found: %s" ->
             /\ EndOfLine(props) # "None"
             /\ Newlines(fl) # {}
             /\ Newlines(fl) # {line_endings[EndOfLine(props)]}
      [] e[1] = "Tab indentation found" ->
             /\ IndentationIsChecked(props)
             /\ \E i \in DOMAIN fl : Contains(fl[i], TAB)
      [] e[1] = "Over 5% of lines appear to be incorrectly indented" ->
             \E i \in DOMAIN fl : LeadingSpaces(fl[i]) > 1
      [] OTHER -> FALSE

\* C28: in any sequence of check() calls on one checker, each call that
\* returns leaves self.errors empty and returns only errors that the file it
\* has checked justifies under the properties of the call; this holds for the
\* call that follows a call which raised, too.
C28_EachCallReturnsItsOwnErrors ==
    [][op' = "check"
       => /\ errors' = {}
          /\ \A e \in ret' : Justified(e, file, properties)]_vars

\* a line without the spaces, tabs and line terminators that end it
RECURSIVE Core(_)
Core(l) ==
    IF l # <<>> /\ l[Len(l)] \in {SP, TAB, CR, NL}
    THEN Core(SubSeq(l, 1, Len(l) - 1))
    ELSE l

\* C29: on a checker that fixes, check() never raises, and it writes as many
\* lines as the file had, in the same order, each differing from the line it
\* replaces in nothing but the spaces and tabs that end it and its
\* terminator; a file of one line without terminator, checked under
\* properties without end_of_line, is no exception.  On a checker that does
\* not fix, check() leaves the file as it is.
C29_FixRewritesLineByLine ==
    /\ [](op = "check_raised" => ~auto_fix)
    /\ [][auto_fix /\ op' = "check"
          => /\ Len(file') = Len(file)
             /\ \A i \in DOMAIN file : Core(file'[i]) = Core(file[i])]_vars
    /\ [][~auto_fix /\ cf >= 0 => file' = file]_vars

\* C30: on a checker that fixes, under properties without a valid
\* end_of_line, check() writes every line with the terminator that the file
\* used: a file whose lines all end with '\n' keeps '\n', one whose lines all
\* end with '\r\n' keeps '\r\n', one whose lines all end with '\r' keeps
\* '\r'.
C30_FixKeepsTheLineEnding ==
    [][/\ auto_fix
       /\ op' = "check"
       /\ EndOfLine(properties) = "None"
       /\ Cardinality(Newlines(file)) = 1
       => \A i \in DOMAIN file' :
              \/ Terminator(file'[i]) = <<>>
              \/ Terminator(file'[i]) \in Newlines(file)]_vars

====
